---- MODULE Spec2Model ----
(***************************************************************************)
(* TIM-System: the save cascades of the inventory ledger, the finance      *)
(* ledger, debt reconciliation and the order total.                        *)
(*                                                                         *)
(* Every subsystem keeps its own tables; each has its own specification    *)
(* (SpecInventory, SpecReserve, SpecFinance, SpecDebt, SpecOrders) over    *)
(* the shared variables, the tables of the other subsystems staying as     *)
(* they are.  The order status and the order history (SpecOrderStatus,     *)
(* SpecOrderAdmin), the tracking numbers (SpecTracking) and the budgets    *)
(* (SpecBudget) follow the same layout.                                    *)
(***************************************************************************)
EXTENDS Integers, Sequences, FiniteSets, TLC

(***************************************************************************)
(* Bounds                                                                  *)
(***************************************************************************)
\* number of InventoryTransaction rows a run persists
MaxMovements == 3
\* largest quantity of a movement in SpecInventory
MaxMoveQty == 2
\* largest quantity of a movement in SpecReserve
MaxReserveQty == 12

Products == {"p1"}
Warehouses == {"w1", "w2"}
\* destination_warehouse is nullable
NoWarehouse == "null"
UnitCosts == {1, 2}

TRANSACTION_TYPES ==
    {"receipt", "issue", "transfer", "adjustment", "return", "reservation", "release"}

VARIABLES
    inventoryItems,   \* InventoryItem table: <<product, warehouse>> -> row
    movementRows,     \* number of rows of the InventoryTransaction table
    movement,         \* the InventoryTransaction most recently saved (self)
    handler,          \* the save method or admin action that ran last
    balance,          \* Account.balance of every account
    transactions,     \* Transaction table, the index being the primary key
    transaction,      \* the Transaction handed to save, as its caller filled it
    transactionSaves, \* number of Transaction.save calls so far
    debts,            \* Debt table
    debtPayments,     \* DebtPayment table, the index being the primary key
    debtPayment,      \* the DebtPayment handed to save
    orders,           \* Order table
    orderItems,       \* OrderItem table, the index being the primary key
    orderItem,        \* the OrderItem that was saved last (self after save)
    now,              \* timezone.now()
    orderHistory,     \* OrderHistory table, in the order of insertion
    payments,         \* Payment table, the index being the primary key
    payment,          \* the Payment that was saved last (self after save)
    trackings,        \* TrackingNumber table
    trackingHistory,  \* TrackingHistory table, in the order of insertion
    tracking,         \* the last update_status call and what it returned
    budget,           \* the period of the Budget row
    budgetTransactions, \* Transaction table as the budget queries read it
    reading,          \* the Budget property read last and its value
    resaves,          \* number of saves of an InventoryTransaction that was stored before
    audits,           \* Inventory (stock audit) table
    auditCall,        \* the audit bulk action run last and whether it raised
    savers,           \* the concurrent Payment.save calls: position, payment, order read
    movers            \* the concurrent InventoryTransaction.save calls: position, movement, item read

invVars == <<inventoryItems, movementRows, movement>>

finVars == <<balance, transactions, transaction, transactionSaves>>

debtVars == <<debts, debtPayments, debtPayment>>

orderVars == <<orders, orderItems, orderItem, now>>

payVars == <<orderHistory, payments, payment>>

trackVars == <<trackings, trackingHistory, tracking>>

budgetVars == <<budget, budgetTransactions, reading>>

auditVars == <<audits, auditCall>>

raceVars == <<savers, movers>>

vars == <<inventoryItems, movementRows, movement, handler,
          balance, transactions, transaction, transactionSaves,
          debts, debtPayments, debtPayment, orders, orderItems, orderItem, now,
          orderHistory, payments, payment, trackings, trackingHistory, tracking,
          budget, budgetTransactions, reading, resaves, audits, auditCall,
          savers, movers>>

(***************************************************************************)
(* Inventory ledger (apps/inventory/models.py)                             *)
(***************************************************************************)
NoMovement ==
    [transaction_type |-> "none", product |-> "p1", source_warehouse |-> "w1",
     destination_warehouse |-> NoWarehouse, quantity |-> 0, unit_cost |-> 1]

MovementRow(t, p, sw, dw, n, c) ==
    [transaction_type |-> t, product |-> p, source_warehouse |-> sw,
     destination_warehouse |-> dw, quantity |-> n, unit_cost |-> c]

\* InventoryItem defaults: quantity 0, reserved_quantity 0
NewItem(cost) == [quantity |-> 0, reserved_quantity |-> 0, unit_cost |-> cost]

\* InventoryItem.objects.get_or_create(product, warehouse, defaults={'unit_cost': cost})
get_or_create(items, p, w, cost) ==
    IF <<p, w>> \in DOMAIN items THEN items ELSE items @@ (<<p, w>> :> NewItem(cost))

available_quantity_noreserve(item) == item.quantity

available_quantity(item) == item.quantity - item.reserved_quantity

receipt_overwrite(items, key, m) ==
    [items EXCEPT ![key] = [@ EXCEPT !.quantity = m.quantity,
                                     !.unit_cost = m.unit_cost]]

receipt(items, key, m) ==
    [items EXCEPT ![key] = [@ EXCEPT !.quantity = @ + m.quantity,
                                     !.unit_cost = m.unit_cost]]

issue_unguarded(items, key, m) ==
    [items EXCEPT ![key] = [@ EXCEPT !.quantity = @ - m.quantity]]

issue(items, key, m) ==
    IF items[key].quantity >= m.quantity
    THEN [items EXCEPT ![key] = [@ EXCEPT !.quantity = @ - m.quantity]]
    ELSE items

transfer_stale_dest(items, key, m) ==
    IF items[key].quantity >= m.quantity
    THEN LET created == get_or_create(items, m.product, m.destination_warehouse, m.unit_cost)
             dkey == <<m.product, m.destination_warehouse>>
             src == [created EXCEPT ![key] = [@ EXCEPT !.quantity = @ - m.quantity]]
         IN  [src EXCEPT ![dkey] = [@ EXCEPT !.quantity = created[dkey].quantity + m.quantity]]
    ELSE items

transfer(items, key, m) ==
    IF items[key].quantity >= m.quantity
    THEN LET src == [items EXCEPT ![key] = [@ EXCEPT !.quantity = @ - m.quantity]]
             \* the destination row is read after the source row was written
             dst == get_or_create(src, m.product, m.destination_warehouse, m.unit_cost)
             dkey == <<m.product, m.destination_warehouse>>
         IN  [dst EXCEPT ![dkey] = [@ EXCEPT !.quantity = @ + m.quantity]]
    ELSE items

adjustment_increment(items, key, m) ==
    [items EXCEPT ![key] = [@ EXCEPT !.quantity = @ + m.quantity]]

adjustment(items, key, m) ==
    [items EXCEPT ![key] = [@ EXCEPT !.quantity = m.quantity]]

reservation(items, key, m) ==
    IF available_quantity(items[key]) >= m.quantity
    THEN [items EXCEPT ![key] = [@ EXCEPT !.reserved_quantity = @ + m.quantity]]
    ELSE items

Max(a, b) == IF a >= b THEN a ELSE b

release_clamped(items, key, m) ==
    [items EXCEPT ![key] = [@ EXCEPT !.reserved_quantity = Max(0, @ - m.quantity)]]

release(items, key, m) ==
    IF items[key].reserved_quantity >= m.quantity
    THEN [items EXCEPT ![key] = [@ EXCEPT !.reserved_quantity = @ - m.quantity]]
    ELSE items

\* the 'return' branch: quantity += N, unit_cost untouched
return(items, key, m) ==
    [items EXCEPT ![key] = [@ EXCEPT !.quantity = @ + m.quantity]]

_update_inventory_any_transfer(items, m) ==
    LET key == <<m.product, m.source_warehouse>>
        withSource == get_or_create(items, m.product, m.source_warehouse, m.unit_cost)
        t == m.transaction_type
    IN  CASE t = "receipt" -> receipt(withSource, key, m)
          [] t = "issue" -> issue(withSource, key, m)
          [] t = "transfer" /\ m.destination_warehouse # NoWarehouse ->
                transfer(withSource, key, m)
          [] t = "transfer" /\ m.destination_warehouse = NoWarehouse ->
                issue(withSource, key, m)
          [] t = "adjustment" -> adjustment(withSource, key, m)
          [] t = "return" -> return(withSource, key, m)
          [] t = "reservation" -> reservation(withSource, key, m)
          [] t = "release" -> release(withSource, key, m)
          [] OTHER -> withSource

\* InventoryTransaction._update_inventory: the item table after the movement m
_update_inventory(items, m) ==
    LET key == <<m.product, m.source_warehouse>>
        withSource == get_or_create(items, m.product, m.source_warehouse, m.unit_cost)
        t == m.transaction_type
    IN  CASE t = "receipt" -> receipt(withSource, key, m)
          [] t = "issue" -> issue(withSource, key, m)
          [] t = "transfer" /\ m.destination_warehouse # NoWarehouse ->
                transfer(withSource, key, m)
          [] t = "adjustment" -> adjustment(withSource, key, m)
          [] t = "return" -> return(withSource, key, m)
          [] t = "reservation" -> reservation(withSource, key, m)
          [] t = "release" -> release(withSource, key, m)
          [] OTHER -> withSource

\* InventoryTransaction.save: persist the row, then update the stock
SaveMovement(m) ==
    /\ movementRows < MaxMovements
    /\ movementRows' = movementRows + 1
    /\ movement' = m
    /\ inventoryItems' = _update_inventory(inventoryItems, m)
    /\ handler' = "InventoryTransaction.save"
    /\ UNCHANGED <<finVars, debtVars, orderVars>>
    /\ UNCHANGED <<payVars, trackVars, budgetVars>>
    /\ UNCHANGED <<resaves, auditVars, raceVars>>

\* rows and repeated saves of a run of SpecResave
MaxResaves == 2

ResaveMovement_row_only ==
    /\ movementRows > 0
    /\ resaves < MaxResaves
    /\ resaves' = resaves + 1
    /\ handler' = "InventoryTransaction.save"
    /\ UNCHANGED <<inventoryItems, movementRows, movement>>
    /\ UNCHANGED <<finVars, debtVars, orderVars, payVars, trackVars, budgetVars>>
    /\ UNCHANGED <<auditVars, raceVars>>

\* InventoryTransaction.save of the row stored last, e.g. after its notes
\* were edited: the row is updated in place, then the stock is updated again
ResaveMovement ==
    /\ movementRows > 0
    /\ resaves < MaxResaves
    /\ resaves' = resaves + 1
    /\ inventoryItems' = _update_inventory(inventoryItems, movement)
    /\ handler' = "InventoryTransaction.save"
    /\ UNCHANGED <<movementRows, movement>>
    /\ UNCHANGED <<finVars, debtVars, orderVars, payVars, trackVars, budgetVars>>
    /\ UNCHANGED <<auditVars, raceVars>>

InitInventory ==
    /\ inventoryItems = << >>
    /\ movementRows = 0
    /\ movement = NoMovement

\* destination_warehouse is read by the transfer branch only: other types are
\* recorded without one
NextInventory ==
    \E t \in TRANSACTION_TYPES, p \in Products, sw \in Warehouses,
       dw \in Warehouses \cup {NoWarehouse}, n \in 0..MaxMoveQty, c \in UnitCosts :
        /\ (t = "transfer" \/ dw = NoWarehouse)
        /\ SaveMovement(MovementRow(t, p, sw, dw, n, c))

\* movements of one product in one warehouse, each saved once or again
NextResave ==
    \/ \E t \in TRANSACTION_TYPES, n \in 0..MaxMoveQty, c \in UnitCosts :
         /\ movementRows < MaxResaves
         /\ SaveMovement(MovementRow(t, "p1", "w1", NoWarehouse, n, c))
    \/ ResaveMovement

(***************************************************************************)
(* Finance ledger (apps/finance/models.py)                                 *)
(***************************************************************************)
\* number of Transaction.save calls of a run
MaxSaves == 2

Accounts == {"a1", "a2"}
\* destination_account is nullable
NoAccount == "null"
Amounts == {1, 2}

Transaction_TRANSACTION_TYPES == {"income", "expense", "transfer", "adjustment"}

\* pk 0: an instance that was never saved
NoTransaction ==
    [pk |-> 0, transaction_type |-> "none", amount |-> 0,
     source_account |-> "a1", destination_account |-> NoAccount]

TransactionInstance(k, t, amt, src, dst) ==
    [pk |-> k, transaction_type |-> t, amount |-> amt,
     source_account |-> src, destination_account |-> dst]

TransactionRow(t) ==
    [transaction_type |-> t.transaction_type, amount |-> t.amount,
     source_account |-> t.source_account, destination_account |-> t.destination_account]

normalise_destination_income_only(t) ==
    IF t.transaction_type = "income"
    THEN [t EXCEPT !.destination_account = t.source_account]
    ELSE t

\* Transaction.save, the type rules on destination_account
normalise_destination(t) ==
    IF t.transaction_type = "income"
    THEN [t EXCEPT !.destination_account = t.source_account]
    ELSE IF t.transaction_type = "expense"
         THEN [t EXCEPT !.destination_account = NoAccount]
         ELSE t

\* super().save(): insert a new row or update the row of the primary key
persist(table, t) ==
    IF t.pk = 0 THEN Append(table, TransactionRow(t))
    ELSE [table EXCEPT ![t.pk] = TransactionRow(t)]

RECURSIVE aggregate(_, _, _, _)
\* <related>.aggregate(total=Sum('amount'))['total'] or 0, over rows 1..n
aggregate(table, a, field, n) ==
    IF n = 0 THEN 0
    ELSE (IF table[n][field] = a THEN table[n].amount ELSE 0)
            + aggregate(table, a, field, n - 1)

update_balance_incoming_only(table, bal, a) ==
    [bal EXCEPT ![a] = aggregate(table, a, "destination_account", Len(table))]

\* Account.update_balance
update_balance(table, bal, a) ==
    LET income == aggregate(table, a, "destination_account", Len(table))
        expense == aggregate(table, a, "source_account", Len(table))
    IN  [bal EXCEPT ![a] = income - expense]

update_balances_source_only(table, bal, t) ==
    update_balance(table, bal, t.source_account)

\* Transaction.save, the balance updates after the row was written
update_balances(table, bal, t) ==
    LET afterSource == update_balance(table, bal, t.source_account)
    IN  IF t.destination_account # NoAccount /\ t.destination_account # t.source_account
        THEN update_balance(table, afterSource, t.destination_account)
        ELSE afterSource

\* Transaction.save of a new (pk 0) or an existing instance
SaveTransaction(t) ==
    /\ transactionSaves < MaxSaves
    /\ t.pk \in 0..Len(transactions)
    /\ LET self == normalise_destination(t)
           table == persist(transactions, self)
       IN  /\ transactions' = table
           /\ balance' = update_balances(table, balance, self)
           /\ transaction' = [t EXCEPT !.pk = IF t.pk = 0 THEN Len(table) ELSE t.pk]
    /\ transactionSaves' = transactionSaves + 1
    /\ handler' = "Transaction.save"
    /\ UNCHANGED <<invVars, debtVars, orderVars>>
    /\ UNCHANGED <<payVars, trackVars, budgetVars>>
    /\ UNCHANGED <<resaves, auditVars, raceVars>>

\* Transaction.delete (Model.delete, which Transaction does not override): the
\* row goes and nothing else is written; the rows after it move up by one
DeleteTransaction(pk) ==
    /\ pk \in DOMAIN transactions
    /\ transactions' = SubSeq(transactions, 1, pk - 1)
                            \o SubSeq(transactions, pk + 1, Len(transactions))
    /\ handler' = "Transaction.delete"
    /\ UNCHANGED <<balance, transaction, transactionSaves>>
    /\ UNCHANGED <<invVars, debtVars, orderVars>>
    /\ UNCHANGED <<payVars, trackVars, budgetVars>>
    /\ UNCHANGED <<resaves, auditVars, raceVars>>

InitFinance ==
    /\ balance = [a \in Accounts |-> 0]
    /\ transactions = << >>
    /\ transaction = NoTransaction
    /\ transactionSaves = 0

NextFinance ==
    \/ \E k \in 0..MaxSaves, t \in Transaction_TRANSACTION_TYPES, amt \in Amounts,
          src \in Accounts, dst \in Accounts \cup {NoAccount} :
         SaveTransaction(TransactionInstance(k, t, amt, src, dst))
    \/ \E k \in 1..MaxSaves : DeleteTransaction(k)

(***************************************************************************)
(* Debt reconciliation (apps/finance/models.py, apps/finance/admin.py)     *)
(***************************************************************************)
\* number of rows of the DebtPayment table
MaxDebtPayments == 3

Debts == {"d1", "d2"}
\* Debt.amount of the debts of the model
DebtAmount == ("d1" :> 2) @@ ("d2" :> 3)
PaymentAmounts == {0, 1, 2}

NoDebtPayment == [pk |-> 0, debt |-> "d1", amount |-> 0]

DebtPaymentRow(p) == [debt |-> p.debt, amount |-> p.amount]

update_status_strict(debt) ==
    [debt EXCEPT !.status =
        IF debt.paid_amount > debt.amount THEN "paid"
        ELSE IF debt.paid_amount > 0 THEN "partially_paid"
        ELSE "active"]

\* Debt.update_status: writes status and paid_amount
update_status(debt) ==
    [debt EXCEPT !.status =
        IF debt.paid_amount >= debt.amount THEN "paid"
        ELSE IF debt.paid_amount > 0 THEN "partially_paid"
        ELSE "active"]

RECURSIVE payments_total(_, _, _)
\* self.debt.payments.aggregate(total=Sum('amount'))['total'], over rows 1..n
payments_total(table, d, n) ==
    IF n = 0 THEN 0
    ELSE (IF table[n].debt = d THEN table[n].amount ELSE 0) + payments_total(table, d, n - 1)

SaveDebtPayment_keep_closed(p) ==
    /\ p.pk \in 0..Len(debtPayments)
    /\ p.pk = 0 => Len(debtPayments) < MaxDebtPayments
    /\ LET table == IF p.pk = 0 THEN Append(debtPayments, DebtPaymentRow(p))
                    ELSE [debtPayments EXCEPT ![p.pk] = DebtPaymentRow(p)]
           total == payments_total(table, p.debt, Len(table))
       IN  /\ debtPayments' = table
           /\ debts' = IF debts[p.debt].status \in {"cancelled", "paid"}
                       THEN debts
                       ELSE [debts EXCEPT ![p.debt] = update_status([@ EXCEPT !.paid_amount = total])]
           /\ debtPayment' = [p EXCEPT !.pk = IF p.pk = 0 THEN Len(table) ELSE p.pk]
    /\ handler' = "DebtPayment.save"
    /\ UNCHANGED <<invVars, finVars, orderVars>>
    /\ UNCHANGED <<payVars, trackVars, budgetVars>>
    /\ UNCHANGED <<resaves, auditVars, raceVars>>

\* DebtPayment.save of a new (pk 0) or an existing payment
SaveDebtPayment(p) ==
    /\ p.pk \in 0..Len(debtPayments)
    /\ p.pk = 0 => Len(debtPayments) < MaxDebtPayments
    /\ LET table == IF p.pk = 0 THEN Append(debtPayments, DebtPaymentRow(p))
                    ELSE [debtPayments EXCEPT ![p.pk] = DebtPaymentRow(p)]
           total == payments_total(table, p.debt, Len(table))
       IN  /\ debtPayments' = table
           /\ debts' = [debts EXCEPT ![p.debt] = update_status([@ EXCEPT !.paid_amount = total])]
           /\ debtPayment' = [p EXCEPT !.pk = IF p.pk = 0 THEN Len(table) ELSE p.pk]
    /\ handler' = "DebtPayment.save"
    /\ UNCHANGED <<invVars, finVars, orderVars>>
    /\ UNCHANGED <<payVars, trackVars, budgetVars>>
    /\ UNCHANGED <<resaves, auditVars, raceVars>>

\* DebtAdmin.mark_as_paid on one selected debt
mark_as_paid(d) ==
    /\ debts' = [debts EXCEPT ![d] = [@ EXCEPT !.paid_amount = debts[d].amount, !.status = "paid"]]
    /\ handler' = "DebtAdmin.mark_as_paid"
    /\ UNCHANGED <<debtPayments, debtPayment, invVars, finVars, orderVars>>
    /\ UNCHANGED <<payVars, trackVars, budgetVars>>
    /\ UNCHANGED <<resaves, auditVars, raceVars>>

\* DebtAdmin.mark_as_cancelled on one selected debt
mark_as_cancelled(d) ==
    /\ debts' = [debts EXCEPT ![d] = [@ EXCEPT !.status = "cancelled"]]
    /\ handler' = "DebtAdmin.mark_as_cancelled"
    /\ UNCHANGED <<debtPayments, debtPayment, invVars, finVars, orderVars>>
    /\ UNCHANGED <<payVars, trackVars, budgetVars>>
    /\ UNCHANGED <<resaves, auditVars, raceVars>>

InitDebt ==
    /\ debts = [d \in Debts |-> [amount |-> DebtAmount[d], paid_amount |-> 0, status |-> "active"]]
    /\ debtPayments = << >>
    /\ debtPayment = NoDebtPayment

NextDebt ==
    \/ \E k \in 0..MaxDebtPayments, d \in Debts, amt \in PaymentAmounts :
         SaveDebtPayment([pk |-> k, debt |-> d, amount |-> amt])
    \/ \E d \in Debts : mark_as_paid(d)
    \/ \E d \in Debts : mark_as_cancelled(d)

(***************************************************************************)
(* Order total (apps/orders/models.py, apps/orders/admin.py)               *)
(***************************************************************************)
\* number of rows of the OrderItem table
MaxOrderItems == 2

Orders == {"o1", "o2"}
Quantities == {1, 2}
UnitPrices == {5, 10}
ShippingCosts == {0, 3}
\* OrderItem.product is nullable
NoProduct == "null"
\* paid_at, shipped_at, delivered_at are nullable
NoTime == 0
\* Product.selling_price of the catalogue; -1 stands for a price that is not set
selling_price == ("p1" :> 5) @@ ("p2" :> -1)

\* pk 0: an instance that was never saved
NoOrderItem == [pk |-> 0, order |-> "o1", quantity |-> 1, unit_price |-> 5]

OrderItemRow(it) == [order |-> it.order, quantity |-> it.quantity, unit_price |-> it.unit_price]

Order_save_restamp(order, t) ==
    IF order.status = "paid" THEN [order EXCEPT !.paid_at = t]
    ELSE IF order.status = "shipped" THEN [order EXCEPT !.shipped_at = t]
         ELSE IF order.status = "delivered" THEN [order EXCEPT !.delivered_at = t]
              ELSE order

\* Order.save: stamps the date of the current status once
Order_save(order, t) ==
    IF order.status = "paid" /\ order.paid_at = NoTime
    THEN [order EXCEPT !.paid_at = t]
    ELSE IF order.status = "shipped" /\ order.shipped_at = NoTime
         THEN [order EXCEPT !.shipped_at = t]
         ELSE IF order.status = "delivered" /\ order.delivered_at = NoTime
              THEN [order EXCEPT !.delivered_at = t]
              ELSE order

subtotal_price_only(row) == row.unit_price

\* OrderItem.subtotal
subtotal(row) == row.quantity * row.unit_price

RECURSIVE items_total(_, _, _)
\* sum(item.subtotal for item in self.items.all()), over rows 1..n
items_total(table, o, n) ==
    IF n = 0 THEN 0
    ELSE (IF table[n].order = o THEN subtotal(table[n]) ELSE 0) + items_total(table, o, n - 1)

\* Order.calculate_total
calculate_total(table, order, o, t) ==
    Order_save([order EXCEPT !.total_amount = items_total(table, o, Len(table)) + order.shipping_cost], t)

\* OrderItem.save, the defaults taken from the product when no name was given
fill_from_product(it) ==
    IF it.product # NoProduct /\ ~it.product_name
    THEN [it EXCEPT !.product_name = TRUE,
                    !.unit_price = IF selling_price[it.product] = -1 THEN 0
                                   ELSE selling_price[it.product]]
    ELSE it

\* OrderItem.save of a new (pk 0) or an existing item
SaveOrderItem(it) ==
    /\ it.pk \in 0..Len(orderItems)
    /\ it.pk = 0 => Len(orderItems) < MaxOrderItems
    /\ LET self == fill_from_product(it)
           table == IF it.pk = 0 THEN Append(orderItems, OrderItemRow(self))
                    ELSE [orderItems EXCEPT ![it.pk] = OrderItemRow(self)]
       IN  /\ orderItems' = table
           /\ orders' = [orders EXCEPT ![it.order] = calculate_total(table, @, it.order, now)]
           /\ orderItem' = [pk |-> IF it.pk = 0 THEN Len(table) ELSE it.pk,
                             order |-> self.order, quantity |-> self.quantity,
                             unit_price |-> self.unit_price]
    /\ handler' = "OrderItem.save"
    /\ UNCHANGED <<now, invVars, finVars, debtVars>>
    /\ UNCHANGED <<payVars, trackVars, budgetVars>>
    /\ UNCHANGED <<resaves, auditVars, raceVars>>

\* OrderAdmin.save_model of an existing order whose shipping cost was edited
\* (the status is left as it is, so no OrderHistory row is written)
SaveOrderShipping(o, cost) ==
    /\ orders' = [orders EXCEPT ![o] = Order_save([@ EXCEPT !.shipping_cost = cost], now)]
    /\ handler' = "OrderAdmin.save_model"
    /\ UNCHANGED <<orderItems, orderItem, now, invVars, finVars, debtVars>>
    /\ UNCHANGED <<payVars, trackVars, budgetVars>>
    /\ UNCHANGED <<resaves, auditVars, raceVars>>

NewOrder(cost) ==
    [status |-> "draft", paid_at |-> NoTime, shipped_at |-> NoTime, delivered_at |-> NoTime,
     total_amount |-> 0, paid_amount |-> 0, shipping_cost |-> cost]

\* orders without items; shipping_cost defaults to 0
InitOrders ==
    /\ orders = [o \in Orders |-> NewOrder(0)]
    /\ orderItems = << >>
    /\ orderItem = NoOrderItem
    /\ now = 1

\* the product and whether a product name was typed in: the OrderItem form
\* leaves the product empty, or names it, or leaves the naming to the save
ProductChoices ==
    {<<NoProduct, TRUE>>, <<"p1", TRUE>>, <<"p1", FALSE>>, <<"p2", FALSE>>}

\* OrderItem rows are entered through the inline of their order: a new row
\* (pk 0) goes to the order being edited, an existing row stays in its order
NextOrders ==
    \/ \E k \in 0..MaxOrderItems, o \in Orders, pc \in ProductChoices,
          q \in Quantities, price \in UnitPrices :
         /\ k \in DOMAIN orderItems => o = orderItems[k].order
         /\ SaveOrderItem([pk |-> k, order |-> o, product |-> pc[1], product_name |-> pc[2],
                           quantity |-> q, unit_price |-> price])
    \/ \E o \in Orders, c \in ShippingCosts : SaveOrderShipping(o, c)

(***************************************************************************)
(* Order status, payments and the order history                            *)
(* (apps/orders/models.py, apps/orders/admin.py)                           *)
(***************************************************************************)
\* number of handler calls of a run of SpecOrderStatus or SpecOrderAdmin
MaxAdminSteps == 3

Order_STATUS_CHOICES ==
    {"draft", "pending", "paid", "processing", "shipped", "delivered", "cancelled", "refunded"}
Payment_STATUS_CHOICES == {"pending", "completed", "failed", "refunded"}
PaidAmounts == {1, 2}
\* total_amount of the order that awaits its payment in SpecOrderAdmin
OrderTotal == 3

\* pk 0: an instance that was never saved
NoPayment == [pk |-> 0, order |-> "o1", amount |-> 1, status |-> "pending"]

PaymentRow(p) == [order |-> p.order, amount |-> p.amount, status |-> p.status]

register_payment_any_status(order, p, t) ==
    IF p.status = "completed"
    THEN LET paid == [order EXCEPT !.paid_amount = @ + p.amount]
         IN  Order_save(IF paid.paid_amount >= paid.total_amount
                        THEN [paid EXCEPT !.status = "paid"] ELSE paid, t)
    ELSE order

\* Payment.save after the row was written: what becomes of self.order
register_payment(order, p, t) ==
    IF p.status = "completed"
    THEN LET paid == [order EXCEPT !.paid_amount = @ + p.amount]
         IN  Order_save(IF paid.paid_amount >= paid.total_amount /\ paid.status = "pending"
                        THEN [paid EXCEPT !.status = "paid"] ELSE paid, t)
    ELSE order

SavePayment_once(p) ==
    /\ now <= MaxAdminSteps
    /\ p.pk \in 0..Len(payments)
    /\ payments' = IF p.pk = 0 THEN Append(payments, PaymentRow(p))
                   ELSE [payments EXCEPT ![p.pk] = PaymentRow(p)]
    /\ orders' = IF p.pk # 0 /\ payments[p.pk].status = "completed"
                 THEN orders
                 ELSE [orders EXCEPT ![p.order] = register_payment(@, p, now)]
    /\ payment' = [p EXCEPT !.pk = IF p.pk = 0 THEN Len(payments) + 1 ELSE p.pk]
    /\ now' = now + 1
    /\ handler' = "Payment.save"
    /\ UNCHANGED <<orderItems, orderItem, orderHistory>>
    /\ UNCHANGED <<invVars, finVars, debtVars, trackVars, budgetVars>>
    /\ UNCHANGED <<resaves, auditVars, raceVars>>

\* Payment.save of a new (pk 0) or an existing payment
SavePayment(p) ==
    /\ now <= MaxAdminSteps
    /\ p.pk \in 0..Len(payments)
    /\ payments' = IF p.pk = 0 THEN Append(payments, PaymentRow(p))
                   ELSE [payments EXCEPT ![p.pk] = PaymentRow(p)]
    /\ orders' = [orders EXCEPT ![p.order] = register_payment(@, p, now)]
    /\ payment' = [p EXCEPT !.pk = IF p.pk = 0 THEN Len(payments) + 1 ELSE p.pk]
    /\ now' = now + 1
    /\ handler' = "Payment.save"
    /\ UNCHANGED <<orderItems, orderItem, orderHistory>>
    /\ UNCHANGED <<invVars, finVars, debtVars, trackVars, budgetVars>>
    /\ UNCHANGED <<resaves, auditVars, raceVars>>

OrderHistoryRow(o, status, previous_status) ==
    [order |-> o, status |-> status, previous_status |-> previous_status]

\* OrderAdmin.save_model of an existing order whose status field was edited
SaveOrderStatus(o, status) ==
    /\ now <= MaxAdminSteps
    /\ orders' = [orders EXCEPT ![o] = Order_save([@ EXCEPT !.status = status], now)]
    /\ orderHistory' = IF orders[o].status # status
                       THEN Append(orderHistory, OrderHistoryRow(o, status, orders[o].status))
                       ELSE orderHistory
    /\ now' = now + 1
    /\ handler' = "OrderAdmin.save_model"
    /\ UNCHANGED <<orderItems, orderItem, payments, payment>>
    /\ UNCHANGED <<invVars, finVars, debtVars, trackVars, budgetVars>>
    /\ UNCHANGED <<resaves, auditVars, raceVars>>

\* the body of the loop of the bulk actions of OrderAdmin, for one selected order
mark_order(o, status, name) ==
    /\ now <= MaxAdminSteps
    /\ IF orders[o].status # status
       THEN /\ orders' = [orders EXCEPT ![o] = Order_save([@ EXCEPT !.status = status], now)]
            /\ orderHistory' = Append(orderHistory, OrderHistoryRow(o, status, orders[o].status))
       ELSE UNCHANGED <<orders, orderHistory>>
    /\ now' = now + 1
    /\ handler' = name
    /\ UNCHANGED <<orderItems, orderItem, payments, payment>>
    /\ UNCHANGED <<invVars, finVars, debtVars, trackVars, budgetVars>>
    /\ UNCHANGED <<resaves, auditVars, raceVars>>

OrderAdmin_mark_as_paid(o) == mark_order(o, "paid", "OrderAdmin.mark_as_paid")

OrderAdmin_mark_as_shipped(o) == mark_order(o, "shipped", "OrderAdmin.mark_as_shipped")

OrderAdmin_mark_as_delivered(o) == mark_order(o, "delivered", "OrderAdmin.mark_as_delivered")

OrderAdmin_mark_as_cancelled(o) == mark_order(o, "cancelled", "OrderAdmin.mark_as_cancelled")

\* PaymentAdmin.mark_as_completed for one selected payment: queryset.update
\* writes the status without Payment.save; the order is saved, and a history
\* row written, only when it turns from pending to paid
PaymentAdmin_mark_as_completed(pk) ==
    /\ now <= MaxAdminSteps
    /\ pk \in DOMAIN payments
    /\ payments' = [payments EXCEPT ![pk].status = "completed"]
    /\ LET o == payments[pk].order
           paid == [orders[o] EXCEPT !.paid_amount = @ + payments[pk].amount]
       IN  IF paid.paid_amount >= paid.total_amount /\ paid.status = "pending"
           THEN /\ orders' = [orders EXCEPT ![o] = Order_save([paid EXCEPT !.status = "paid"], now)]
                /\ orderHistory' = Append(orderHistory, OrderHistoryRow(o, "paid", "pending"))
           ELSE UNCHANGED <<orders, orderHistory>>
    /\ now' = now + 1
    /\ handler' = "PaymentAdmin.mark_as_completed"
    /\ UNCHANGED <<orderItems, orderItem, payment>>
    /\ UNCHANGED <<invVars, finVars, debtVars, trackVars, budgetVars>>
    /\ UNCHANGED <<resaves, auditVars, raceVars>>

\* PaymentAdmin.mark_as_refunded for one selected payment
PaymentAdmin_mark_as_refunded(pk) ==
    /\ now <= MaxAdminSteps
    /\ pk \in DOMAIN payments
    /\ payments' = [payments EXCEPT ![pk].status = "refunded"]
    /\ now' = now + 1
    /\ handler' = "PaymentAdmin.mark_as_refunded"
    /\ UNCHANGED <<orders, orderItems, orderItem, orderHistory, payment>>
    /\ UNCHANGED <<invVars, finVars, debtVars, trackVars, budgetVars>>
    /\ UNCHANGED <<resaves, auditVars, raceVars>>

InitPayments ==
    /\ orderHistory = << >>
    /\ payments = << >>
    /\ payment = NoPayment

NextOrderStatus ==
    \/ \E o \in Orders, s \in Order_STATUS_CHOICES : SaveOrderStatus(o, s)
    \/ \E o \in Orders : OrderAdmin_mark_as_paid(o)
    \/ \E o \in Orders : OrderAdmin_mark_as_shipped(o)
    \/ \E o \in Orders : OrderAdmin_mark_as_delivered(o)
    \/ \E o \in Orders : OrderAdmin_mark_as_cancelled(o)

\* a payment is entered for any order; an existing payment stays with its order
NextOrderAdmin ==
    \/ \E k \in 0..MaxAdminSteps, o \in Orders, a \in PaidAmounts, s \in Payment_STATUS_CHOICES :
         /\ k \in DOMAIN payments => o = payments[k].order
         /\ SavePayment([pk |-> k, order |-> o, amount |-> a, status |-> s])
    \/ \E k \in 1..MaxAdminSteps : PaymentAdmin_mark_as_completed(k)
    \/ \E k \in 1..MaxAdminSteps : PaymentAdmin_mark_as_refunded(k)
    \/ \E o \in Orders, s \in Order_STATUS_CHOICES : SaveOrderStatus(o, s)
    \/ \E o \in Orders : OrderAdmin_mark_as_paid(o)
    \/ \E o \in Orders : OrderAdmin_mark_as_shipped(o)
    \/ \E o \in Orders : OrderAdmin_mark_as_delivered(o)
    \/ \E o \in Orders : OrderAdmin_mark_as_cancelled(o)

(***************************************************************************)
(* Tracking numbers (apps/tracking/models.py, apps/tracking/admin.py)      *)
(***************************************************************************)
\* number of update_status calls of a run of SpecTracking
MaxTrackingSteps == 3

TrackingNumbers == {"t1", "t2"}
TrackingNumber_STATUS_CHOICES ==
    {"pending", "shipped", "in_transit", "customs", "arrived", "delivered",
     "returned", "lost", "unknown"}
\* a status that is not among the choices
UnlistedStatus == "teleported"

NoTrackingCall == [tracking_number |-> "t1", status |-> "pending", returned |-> FALSE]

NewTrackingNumber ==
    [current_status |-> "pending", shipped_date |-> NoTime, delivered_date |-> NoTime]

is_known_status_any(status) == TRUE

\* status in dict(self.STATUS_CHOICES).keys()
is_known_status(status) == status \in TrackingNumber_STATUS_CHOICES

stamp_dates_always(row, status, t) ==
    IF status = "shipped" THEN [row EXCEPT !.shipped_date = t]
    ELSE IF status = "delivered" THEN [row EXCEPT !.delivered_date = t]
         ELSE row

\* update_status: the dates that depend on the new status
stamp_dates(row, status, t) ==
    IF status = "shipped" /\ row.shipped_date = NoTime
    THEN [row EXCEPT !.shipped_date = t]
    ELSE IF status = "delivered" /\ row.delivered_date = NoTime
         THEN [row EXCEPT !.delivered_date = t]
         ELSE row

TrackingHistoryRow_same_status(tn, status, previous_status) ==
    [tracking_number |-> tn, status |-> status, previous_status |-> status]

\* TrackingHistory.objects.create(...); location and details are stored as
\* they were passed and are read by nothing
TrackingHistoryRow(tn, status, previous_status) ==
    [tracking_number |-> tn, status |-> status, previous_status |-> previous_status]

\* TrackingNumber.update_status(status), called by name
update_tracking(tn, status, name) ==
    /\ now <= MaxTrackingSteps
    /\ IF is_known_status(status)
       THEN /\ trackings' = [trackings EXCEPT ![tn] =
                                stamp_dates([@ EXCEPT !.current_status = status], status, now)]
            /\ trackingHistory' = Append(trackingHistory,
                                TrackingHistoryRow(tn, status, trackings[tn].current_status))
            /\ tracking' = [tracking_number |-> tn, status |-> status, returned |-> TRUE]
       ELSE /\ UNCHANGED <<trackings, trackingHistory>>
            /\ tracking' = [tracking_number |-> tn, status |-> status, returned |-> FALSE]
    /\ now' = now + 1
    /\ handler' = name
    /\ UNCHANGED <<orders, orderItems, orderItem>>
    /\ UNCHANGED <<invVars, finVars, debtVars, payVars, budgetVars>>
    /\ UNCHANGED <<resaves, auditVars, raceVars>>

TrackingNumber_update_status(tn, status) ==
    update_tracking(tn, status, "TrackingNumber.update_status")

\* TrackingNumberAdmin.mark_as_delivered for one selected tracking number
TrackingNumberAdmin_mark_as_delivered(tn) ==
    update_tracking(tn, "delivered", "TrackingNumberAdmin.mark_as_delivered")

InitTracking ==
    /\ trackings = [tn \in TrackingNumbers |-> NewTrackingNumber]
    /\ trackingHistory = << >>
    /\ tracking = NoTrackingCall

NextTracking ==
    \/ \E tn \in TrackingNumbers,
          s \in TrackingNumber_STATUS_CHOICES \cup {UnlistedStatus} :
         TrackingNumber_update_status(tn, s)
    \/ \E tn \in TrackingNumbers : TrackingNumberAdmin_mark_as_delivered(tn)

(***************************************************************************)
(* Budgets (apps/finance/models.py)                                        *)
(***************************************************************************)
\* number of rows of the Transaction table in SpecBudget
MaxBudgetRows == 2

\* Budget.start_date and end_date are dates; Transaction.date is a date and a
\* time of that day, tick 0 being midnight
Days == {1, 2}
Ticks == {0, 1}
Categories == {"c1", "c2"}
\* a DecimalField holds None (<< >>) or one number (<<n>>)
None == << >>
BudgetAmounts == {None, <<-1>>, <<0>>, <<2>>}
Zero == [raised |-> FALSE, num |-> 0, den |-> 1]

NoReading == [property |-> "none", amount |-> None, value |-> Zero]

\* a date handed to a lookup on a DateTimeField: the midnight of that day
to_datetime(d) == [day |-> d, tick |-> 0]

\* the order of two points in time
lte(a, b) == a.day < b.day \/ (a.day = b.day /\ a.tick <= b.tick)

\* date__gte=self.start_date, date__lte=self.end_date
in_period(row, b) == lte(to_datetime(b.start_date), row.date) /\ lte(row.date, to_datetime(b.end_date))

RECURSIVE Sum_amount(_, _, _, _, _)
\* filter(<field>=v, date__gte=..., date__lte=...).aggregate(Sum('amount')),
\* over rows 1..n; None becomes 0
Sum_amount(table, field, v, b, n) ==
    IF n = 0 THEN 0
    ELSE (IF table[n][field] = v /\ in_period(table[n], b) THEN table[n].amount ELSE 0)
         + Sum_amount(table, field, v, b, n - 1)

\* Budget.actual_income; start_date and end_date are set in every budget here,
\* so the early return for a missing date is never taken
actual_income(table, b) == Sum_amount(table, "transaction_type", "income", b, Len(table))

\* Budget.actual_expense
actual_expense(table, b) == Sum_amount(table, "transaction_type", "expense", b, Len(table))

\* BudgetCategory.actual_amount
actual_amount(table, b, category) == Sum_amount(table, "category", category, b, Len(table))

\* actual / amount; a division by zero raises
divide(a, d) ==
    IF d = 0 THEN [raised |-> TRUE, num |-> 0, den |-> 1]
    ELSE [raised |-> FALSE, num |-> a, den |-> d]

\* except (TypeError, ZeroDivisionError, AttributeError): return 0
except_return_0(v) == IF v.raised THEN Zero ELSE v

percentage_unguarded(amount, actual) ==
    IF amount = None THEN Zero ELSE except_return_0(divide(actual * 100, amount[1]))

\* the body of income_progress, expense_progress and progress:
\* 0 unless the amount is set and positive, else (actual / amount) * 100
percentage(amount, actual) ==
    IF amount = None \/ amount[1] = 0 \/ amount[1] <= 0 THEN Zero
    ELSE except_return_0(divide(actual * 100, amount[1]))

\* Budget.income_progress of a budget whose income_budget is amount
income_progress(table, b, amount) == percentage(amount, actual_income(table, b))

\* Budget.expense_progress of a budget whose expense_budget is amount
expense_progress(table, b, amount) == percentage(amount, actual_expense(table, b))

\* BudgetCategory.progress of a category budget of that amount
progress(table, b, category, amount) == percentage(amount, actual_amount(table, b, category))

\* a Transaction is recorded
RecordTransaction(type, amount, date, category) ==
    /\ Len(budgetTransactions) < MaxBudgetRows
    /\ budgetTransactions' = Append(budgetTransactions,
            [transaction_type |-> type, amount |-> amount, date |-> date, category |-> category])
    /\ handler' = "Transaction.objects.create"
    /\ UNCHANGED <<budget, reading>>
    /\ UNCHANGED <<invVars, finVars, debtVars, orderVars, payVars, trackVars>>
    /\ UNCHANGED <<resaves, auditVars, raceVars>>

Read(property, amount, value) ==
    /\ reading' = [property |-> property, amount |-> amount, value |-> value]
    /\ handler' = property
    /\ UNCHANGED <<budget, budgetTransactions>>
    /\ UNCHANGED <<invVars, finVars, debtVars, orderVars, payVars, trackVars>>
    /\ UNCHANGED <<resaves, auditVars, raceVars>>

ReadActualIncome ==
    Read("Budget.actual_income", None, divide(actual_income(budgetTransactions, budget), 1))

ReadActualExpense ==
    Read("Budget.actual_expense", None, divide(actual_expense(budgetTransactions, budget), 1))

ReadIncomeProgress(amount) ==
    Read("Budget.income_progress", amount, income_progress(budgetTransactions, budget, amount))

ReadExpenseProgress(amount) ==
    Read("Budget.expense_progress", amount, expense_progress(budgetTransactions, budget, amount))

ReadProgress(category, amount) ==
    Read("BudgetCategory.progress", amount, progress(budgetTransactions, budget, category, amount))

InitBudget ==
    /\ budget = [start_date |-> 1, end_date |-> 2]
    /\ budgetTransactions = << >>
    /\ reading = NoReading

NextBudget ==
    \/ \E type \in {"income", "expense"}, amount \in Amounts, day \in Days, tick \in Ticks :
         RecordTransaction(type, amount, [day |-> day, tick |-> tick], "c1")
    \/ ReadActualIncome
    \/ ReadActualExpense
    \/ \E amount \in BudgetAmounts : ReadIncomeProgress(amount)
    \/ \E amount \in BudgetAmounts : ReadExpenseProgress(amount)
    \/ \E category \in Categories, amount \in BudgetAmounts : ReadProgress(category, amount)

(***************************************************************************)
(* Stock audits (apps/inventory/models.py, apps/inventory/admin.py)        *)
(***************************************************************************)
Audits == {"i1", "i2"}
Inventory_STATUS_CHOICES == {"draft", "in_progress", "completed", "cancelled"}

\* status defaults to draft; start_date and end_date are nullable
NewAudit == [status |-> "draft", start_date |-> NoTime, end_date |-> NoTime]

NoAuditCall == [action |-> "none", audit |-> "i1", raised |-> FALSE]

\* number of handler calls of a run of SpecAudit
MaxAuditSteps == 3

\* Inventory.save: stamps the date of the current status once
Inventory_save(audit, t) ==
    IF audit.status = "in_progress" /\ audit.start_date = NoTime
    THEN [audit EXCEPT !.start_date = t]
    ELSE IF audit.status = "completed" /\ audit.end_date = NoTime
         THEN [audit EXCEPT !.end_date = t]
         ELSE audit

\* InventoryAdmin.save_model of an audit whose status field was edited
SaveAudit(i, status) ==
    /\ now <= MaxAuditSteps
    /\ audits' = [audits EXCEPT ![i] = Inventory_save([@ EXCEPT !.status = status], now)]
    /\ auditCall' = [action |-> "save_model", audit |-> i, raised |-> FALSE]
    /\ now' = now + 1
    /\ handler' = "InventoryAdmin.save_model"
    /\ UNCHANGED <<orders, orderItems, orderItem>>
    /\ UNCHANGED <<invVars, finVars, debtVars, payVars, trackVars, budgetVars>>
    /\ UNCHANGED <<resaves, raceVars>>

\* timezone.now() in apps/inventory/admin.py: the name timezone is bound to
\* datetime.timezone, a class without an attribute now, so the call raises
\* AttributeError
timezone_now(t) == [raised |-> TRUE, value |-> t]

\* queryset.filter(status=from).update(status=status, field=timezone.now())
\* on the selected audit i: the argument is evaluated first, and the rows
\* are written only if that did not raise
update_with_date(i, from, status, field, t) ==
    IF ~t.raised /\ audits[i].status = from
    THEN [audits EXCEPT ![i] = [@ EXCEPT !.status = status, ![field] = t.value]]
    ELSE audits

\* InventoryAdmin.start_inventory for one selected audit
start_inventory(i) ==
    /\ now <= MaxAuditSteps
    /\ audits' = update_with_date(i, "draft", "in_progress", "start_date",
                                  timezone_now(now))
    /\ auditCall' = [action |-> "start_inventory", audit |-> i,
                     raised |-> timezone_now(now).raised]
    /\ now' = now + 1
    /\ handler' = "InventoryAdmin.start_inventory"
    /\ UNCHANGED <<orders, orderItems, orderItem>>
    /\ UNCHANGED <<invVars, finVars, debtVars, payVars, trackVars, budgetVars>>
    /\ UNCHANGED <<resaves, raceVars>>

\* InventoryAdmin.complete_inventory for one selected audit
complete_inventory(i) ==
    /\ now <= MaxAuditSteps
    /\ audits' = update_with_date(i, "in_progress", "completed", "end_date",
                                  timezone_now(now))
    /\ auditCall' = [action |-> "complete_inventory", audit |-> i,
                     raised |-> timezone_now(now).raised]
    /\ now' = now + 1
    /\ handler' = "InventoryAdmin.complete_inventory"
    /\ UNCHANGED <<orders, orderItems, orderItem>>
    /\ UNCHANGED <<invVars, finVars, debtVars, payVars, trackVars, budgetVars>>
    /\ UNCHANGED <<resaves, raceVars>>

\* InventoryAdmin.cancel_inventory for one selected audit
cancel_inventory(i) ==
    /\ now <= MaxAuditSteps
    /\ audits' = IF audits[i].status # "completed"
                  THEN [audits EXCEPT ![i].status = "cancelled"]
                  ELSE audits
    /\ auditCall' = [action |-> "cancel_inventory", audit |-> i, raised |-> FALSE]
    /\ now' = now + 1
    /\ handler' = "InventoryAdmin.cancel_inventory"
    /\ UNCHANGED <<orders, orderItems, orderItem>>
    /\ UNCHANGED <<invVars, finVars, debtVars, payVars, trackVars, budgetVars>>
    /\ UNCHANGED <<resaves, raceVars>>

NextAudit ==
    \/ \E i \in Audits, s \in Inventory_STATUS_CHOICES : SaveAudit(i, s)
    \/ \E i \in Audits : start_inventory(i)
    \/ \E i \in Audits : complete_inventory(i)
    \/ \E i \in Audits : cancel_inventory(i)

InitAudit ==
    /\ audits = [i \in Audits |-> NewAudit]
    /\ auditCall = NoAuditCall

(***************************************************************************)
(* Concurrent saves (apps/orders/models.py, apps/inventory/models.py)      *)
(***************************************************************************)
Savers == {"s1", "s2"}
Movers == {"m1", "m2"}

\* a Payment.save that has not begun
IdleSaver == [pc |-> "idle", amount |-> 1, order |-> NewOrder(0)]

\* an InventoryTransaction.save that has not begun
IdleMover == [pc |-> "idle", movement |-> NoMovement, item |-> NewItem(1)]

\* Payment.save of saver s, first statement: super().save() inserts the row
SaverInsert(s) ==
    /\ savers[s].pc = "idle"
    /\ payments' = Append(payments, [order |-> "o1", amount |-> savers[s].amount,
                                      status |-> "completed"])
    /\ savers' = [savers EXCEPT ![s].pc = "inserted"]
    /\ handler' = "Payment.save"
    /\ UNCHANGED <<orders, orderItems, orderItem, now, orderHistory, payment, movers>>
    /\ UNCHANGED <<invVars, finVars, debtVars, trackVars, budgetVars, resaves, auditVars>>

\* self.order is fetched when it is first used: the saver reads the stored order
SaverRead(s) ==
    /\ savers[s].pc = "inserted"
    /\ savers' = [savers EXCEPT ![s].pc = "read", ![s].order = orders["o1"]]
    /\ handler' = "Payment.save"
    /\ UNCHANGED <<orders, orderItems, orderItem, now, payVars, movers>>
    /\ UNCHANGED <<invVars, finVars, debtVars, trackVars, budgetVars, resaves, auditVars>>

SaverWrite_fresh(s) ==
    /\ savers[s].pc = "read"
    /\ orders' = [orders EXCEPT !["o1"] =
                      register_payment(@, [status |-> "completed",
                                           amount |-> savers[s].amount], now)]
    /\ savers' = [savers EXCEPT ![s].pc = "done"]
    /\ handler' = "Payment.save"
    /\ UNCHANGED <<orderItems, orderItem, now, payVars, movers>>
    /\ UNCHANGED <<invVars, finVars, debtVars, trackVars, budgetVars, resaves, auditVars>>

\* the amount is added to the order that was read, and order.save() writes
\* every field of that order
SaverWrite(s) ==
    /\ savers[s].pc = "read"
    /\ orders' = [orders EXCEPT !["o1"] =
                      register_payment(savers[s].order, [status |-> "completed",
                                                         amount |-> savers[s].amount], now)]
    /\ savers' = [savers EXCEPT ![s].pc = "done"]
    /\ handler' = "Payment.save"
    /\ UNCHANGED <<orderItems, orderItem, now, payVars, movers>>
    /\ UNCHANGED <<invVars, finVars, debtVars, trackVars, budgetVars, resaves, auditVars>>

NextPaymentRace ==
    \/ \E s \in Savers : SaverInsert(s)
    \/ \E s \in Savers : SaverRead(s)
    \/ \E s \in Savers : SaverWrite(s)

InitRace ==
    /\ savers = [s \in Savers |-> IdleSaver]
    /\ movers = [m \in Movers |-> IdleMover]

Init ==
    /\ InitInventory
    /\ InitFinance
    /\ InitDebt
    /\ InitOrders
    /\ InitPayments
    /\ InitTracking
    /\ InitBudget
    /\ resaves = 0
    /\ InitAudit
    /\ InitRace
    /\ handler = "none"

\* the orders of SpecOrderAdmin as they were entered in the admin: o1 awaits
\* its payment, o2 is a draft without a total
InitOrderAdmin ==
    /\ InitInventory
    /\ InitFinance
    /\ InitDebt
    /\ orders = [o \in Orders |-> IF o = "o1"
                     THEN [NewOrder(0) EXCEPT !.status = "pending", !.total_amount = OrderTotal]
                     ELSE NewOrder(0)]
    /\ orderItems = << >>
    /\ orderItem = NoOrderItem
    /\ now = 1
    /\ InitPayments
    /\ InitTracking
    /\ InitBudget
    /\ resaves = 0
    /\ InitAudit
    /\ InitRace
    /\ handler = "none"

\* two completed payments of any amounts are about to be saved for o1, which
\* awaits its payment or is being processed
InitPaymentRace ==
    /\ InitInventory
    /\ InitFinance
    /\ InitDebt
    /\ \E st \in {"pending", "processing"}, total \in {0, OrderTotal} :
         orders = [o \in Orders |-> IF o = "o1"
                      THEN [NewOrder(0) EXCEPT !.status = st, !.total_amount = total]
                      ELSE NewOrder(0)]
    /\ orderItems = << >>
    /\ orderItem = NoOrderItem
    /\ now = 1
    /\ InitPayments
    /\ InitTracking
    /\ InitBudget
    /\ resaves = 0
    /\ InitAudit
    /\ savers \in [Savers -> {[IdleSaver EXCEPT !.amount = a] : a \in PaidAmounts}]
    /\ movers = [m \in Movers |-> IdleMover]
    /\ handler = "none"

\* a budget of any period, the period of one day and the empty one included
InitBudgetPeriods ==
    /\ InitInventory
    /\ InitFinance
    /\ InitDebt
    /\ InitOrders
    /\ InitPayments
    /\ InitTracking
    /\ budget \in [start_date : Days, end_date : Days]
    /\ budgetTransactions = << >>
    /\ reading = NoReading
    /\ resaves = 0
    /\ InitAudit
    /\ InitRace
    /\ handler = "none"

SpecInventory == Init /\ [][NextInventory]_vars

SpecDebt == Init /\ [][NextDebt]_vars

SpecOrders == Init /\ [][NextOrders]_vars

SpecFinance == Init /\ [][NextFinance]_vars

SpecResave == Init /\ [][NextResave]_vars

SpecAudit == Init /\ [][NextAudit]_vars

\* the debts after DebtAdmin.mark_as_cancelled or DebtAdmin.mark_as_paid ran on
\* each of them, before any payment is recorded
InitDebtAdmin ==
    /\ InitInventory
    /\ InitFinance
    /\ \E closed \in [Debts -> {"paid", "cancelled"}] :
         debts = [d \in Debts |->
                    [amount |-> DebtAmount[d],
                     paid_amount |-> IF closed[d] = "paid" THEN DebtAmount[d] ELSE 0,
                     status |-> closed[d]]]
    /\ debtPayments = << >>
    /\ debtPayment = NoDebtPayment
    /\ InitOrders
    /\ InitPayments
    /\ InitTracking
    /\ InitBudget
    /\ resaves = 0
    /\ InitAudit
    /\ InitRace
    /\ handler = "none"

\* payments are only added; the two bulk actions run at any time
NextDebtAdmin ==
    \/ \E d \in Debts, amt \in PaymentAmounts :
         SaveDebtPayment([pk |-> 0, debt |-> d, amount |-> amt])
    \/ \E d \in Debts : mark_as_paid(d)
    \/ \E d \in Debts : mark_as_cancelled(d)

SpecDebtAdmin == InitDebtAdmin /\ [][NextDebtAdmin]_vars

SpecPaymentRace == InitPaymentRace /\ [][NextPaymentRace]_vars

SpecOrderStatus == Init /\ [][NextOrderStatus]_vars

SpecOrderAdmin == InitOrderAdmin /\ [][NextOrderAdmin]_vars

SpecTracking == Init /\ [][NextTracking]_vars

SpecBudget == InitBudgetPeriods /\ [][NextBudget]_vars

(***************************************************************************)
(* Inventory ledger: properties                                            *)
(***************************************************************************)
\* the stored quantity of an item, an absent row counting as the row
\* get_or_create would insert
QtyOf(items, key) == IF key \in DOMAIN items THEN items[key].quantity ELSE 0

RsvOf(items, key) == IF key \in DOMAIN items THEN items[key].reserved_quantity ELSE 0

RECURSIVE SumQty(_, _, _)
SumQty(items, p, ws) ==
    IF ws = {} THEN 0
    ELSE LET w == CHOOSE x \in ws : TRUE
         IN  QtyOf(items, <<p, w>>) + SumQty(items, p, ws \ {w})

\* the product's quantity summed over all warehouses
TotalQty(items, p) == SumQty(items, p, Warehouses)

SourceKey(m) == <<m.product, m.source_warehouse>>

DestKey(m) == <<m.product, m.destination_warehouse>>

\* C1: a reservation of N raises reserved_quantity by N exactly when
\* quantity - reserved_quantity >= N held before, a release of N lowers it by
\* N exactly when reserved_quantity >= N held before; otherwise
\* reserved_quantity keeps its value, and quantity keeps its value in all cases.
C1_ReservationRelease ==
    [][movement'.transaction_type \in {"reservation", "release"} =>
        LET m == movement'
            q == QtyOf(inventoryItems, SourceKey(m))
            r == RsvOf(inventoryItems, SourceKey(m))
            post == inventoryItems'[SourceKey(m)]
        IN  /\ post.quantity = q
            /\ m.transaction_type = "reservation" =>
                 post.reserved_quantity = IF q - r >= m.quantity THEN r + m.quantity ELSE r
            /\ m.transaction_type = "release" =>
                 post.reserved_quantity = IF r >= m.quantity THEN r - m.quantity ELSE r
    ]_vars

\* a reservation of 1 was granted on an item holding 2 with 1 already reserved
C1_Witness ==
    /\ movement.transaction_type = "reservation"
    /\ movement.quantity = 1
    /\ SourceKey(movement) \in DOMAIN inventoryItems
    /\ inventoryItems[SourceKey(movement)].quantity = 2
    /\ inventoryItems[SourceKey(movement)].reserved_quantity = 2

\* C3: an issue of N lowers quantity by N exactly when quantity >= N held
\* before; otherwise quantity keeps its value; the movement row is persisted
\* and reserved_quantity keeps its value either way.
C3_Issue ==
    [][movement'.transaction_type = "issue" =>
        LET m == movement'
            q == QtyOf(inventoryItems, SourceKey(m))
            r == RsvOf(inventoryItems, SourceKey(m))
            post == inventoryItems'[SourceKey(m)]
        IN  /\ movementRows' = movementRows + 1
            /\ post.quantity = IF q >= m.quantity THEN q - m.quantity ELSE q
            /\ post.reserved_quantity = r
    ]_vars

\* an issue of 2 was refused on an item holding 1: the row exists, the stock stays
C3_Witness ==
    /\ movement.transaction_type = "issue"
    /\ movement.quantity = 2
    /\ movementRows = 2
    /\ SourceKey(movement) \in DOMAIN inventoryItems
    /\ inventoryItems[SourceKey(movement)].quantity = 1

\* C4 as stated: a transfer of N with a destination lowers the source item's
\* quantity by N and raises the destination item's by N when the source holds
\* N, keeping the product's total; otherwise no quantity changes and no
\* destination item is created.
C4_Original ==
    [][(movement'.transaction_type = "transfer"
          /\ movement'.destination_warehouse # NoWarehouse) =>
        LET m == movement'
            qs == QtyOf(inventoryItems, SourceKey(m))
            qd == QtyOf(inventoryItems, DestKey(m))
        IN  IF qs >= m.quantity
            THEN /\ DestKey(m) \in DOMAIN inventoryItems'
                 /\ inventoryItems'[SourceKey(m)].quantity = qs - m.quantity
                 /\ inventoryItems'[DestKey(m)].quantity = qd + m.quantity
                 /\ TotalQty(inventoryItems', m.product) = TotalQty(inventoryItems, m.product)
            ELSE /\ inventoryItems'[SourceKey(m)].quantity = qs
                 /\ QtyOf(inventoryItems', DestKey(m)) = qd
                 /\ (DestKey(m) \notin DOMAIN inventoryItems
                        => DestKey(m) \notin DOMAIN inventoryItems')
    ]_vars

\* C4 amended: as stated when the destination differs from the source
\* warehouse; a transfer of a warehouse to itself leaves the item's quantity as
\* it was; the product's total quantity is unchanged in every case.
C4_Transfer ==
    [][(movement'.transaction_type = "transfer"
          /\ movement'.destination_warehouse # NoWarehouse) =>
        LET m == movement'
            qs == QtyOf(inventoryItems, SourceKey(m))
            qd == QtyOf(inventoryItems, DestKey(m))
        IN  /\ TotalQty(inventoryItems', m.product) = TotalQty(inventoryItems, m.product)
            /\ IF qs >= m.quantity /\ DestKey(m) # SourceKey(m)
               THEN /\ DestKey(m) \in DOMAIN inventoryItems'
                    /\ inventoryItems'[SourceKey(m)].quantity = qs - m.quantity
                    /\ inventoryItems'[DestKey(m)].quantity = qd + m.quantity
               ELSE /\ inventoryItems'[SourceKey(m)].quantity = qs
                    /\ QtyOf(inventoryItems', DestKey(m)) = qd
                    /\ (DestKey(m) \notin DOMAIN inventoryItems /\ DestKey(m) # SourceKey(m)
                           => DestKey(m) \notin DOMAIN inventoryItems')
    ]_vars

\* a warehouse holding 2 was transferred to itself and still holds 2
C4_Witness ==
    /\ movement.transaction_type = "transfer"
    /\ movement.destination_warehouse = movement.source_warehouse
    /\ movement.quantity = 2
    /\ movementRows = 2
    /\ SourceKey(movement) \in DOMAIN inventoryItems
    /\ inventoryItems[SourceKey(movement)].quantity = 2

\* C5: a receipt or a return of N raises quantity by N whatever the stock; a
\* receipt sets unit_cost to the movement's, a return keeps the unit_cost of an
\* item that existed; reserved_quantity keeps its value.
C5_ReceiptReturn ==
    [][movement'.transaction_type \in {"receipt", "return"} =>
        LET m == movement'
            q == QtyOf(inventoryItems, SourceKey(m))
            r == RsvOf(inventoryItems, SourceKey(m))
            post == inventoryItems'[SourceKey(m)]
        IN  /\ post.quantity = q + m.quantity
            /\ post.reserved_quantity = r
            /\ m.transaction_type = "receipt" => post.unit_cost = m.unit_cost
            /\ (m.transaction_type = "return" /\ SourceKey(m) \in DOMAIN inventoryItems) =>
                 post.unit_cost = inventoryItems[SourceKey(m)].unit_cost
    ]_vars

\* a receipt of 2 at unit cost 2 arrived on an item that held 1 at another cost
C5_Witness ==
    /\ movement.transaction_type = "receipt"
    /\ movement.quantity = 2
    /\ movement.unit_cost = 2
    /\ movementRows = 2
    /\ SourceKey(movement) \in DOMAIN inventoryItems
    /\ inventoryItems[SourceKey(movement)].quantity = 3
    /\ inventoryItems[SourceKey(movement)].unit_cost = 2

\* C6: an adjustment of N sets quantity to N whatever it was and keeps
\* reserved_quantity.
C6_Adjustment ==
    [][movement'.transaction_type = "adjustment" =>
        LET m == movement'
            r == RsvOf(inventoryItems, SourceKey(m))
            post == inventoryItems'[SourceKey(m)]
        IN  /\ post.quantity = m.quantity
            /\ post.reserved_quantity = r
    ]_vars

\* an adjustment to 1 was applied to an item of which 2 are reserved
C6_Witness ==
    /\ movement.transaction_type = "adjustment"
    /\ movement.quantity = 1
    /\ SourceKey(movement) \in DOMAIN inventoryItems
    /\ inventoryItems[SourceKey(movement)].quantity = 1
    /\ inventoryItems[SourceKey(movement)].reserved_quantity = 2

(***************************************************************************)
(* The reservation scenario: one item holding 10 with nothing reserved     *)
(* (a row entered through InventoryItemAdmin), then reservations and       *)
(* releases only.                                                          *)
(***************************************************************************)
ScenarioKey == <<"p1", "w1">>

ScenarioItems ==
    ScenarioKey :> [quantity |-> 10, reserved_quantity |-> 0, unit_cost |-> 1]

InitReserve ==
    /\ inventoryItems = ScenarioItems
    /\ movementRows = 0
    /\ movement = NoMovement
    /\ handler = "none"
    /\ InitFinance
    /\ InitDebt
    /\ InitOrders
    /\ InitPayments
    /\ InitTracking
    /\ InitBudget
    /\ resaves = 0
    /\ InitAudit
    /\ InitRace

NextReserve ==
    \E t \in {"reservation", "release"}, n \in 1..MaxReserveQty :
        SaveMovement(MovementRow(t, "p1", "w1", NoWarehouse, n, 1))

SpecReserve == InitReserve /\ [][NextReserve]_vars

\* the first movement of the scenario was a reservation of 5 and the step
\* records a release of 7
ReserveFiveReleaseSeven ==
    /\ movementRows = 1
    /\ movement.transaction_type = "reservation"
    /\ movement.quantity = 5
    /\ movement'.transaction_type = "release"
    /\ movement'.quantity = 7

\* C2 as stated: from quantity 10 and reserved_quantity 0, a reservation of 5
\* followed by a release of 7 leaves reserved_quantity at 0.
C2_Original ==
    [][ReserveFiveReleaseSeven => inventoryItems'[ScenarioKey].reserved_quantity = 0]_vars

\* C2 amended: from quantity 10 and reserved_quantity 0, a reservation of 5
\* followed by a release of 7 leaves reserved_quantity at 5: the release
\* exceeds the reserve and changes nothing.
C2_ReserveThenRelease ==
    [][ReserveFiveReleaseSeven =>
            /\ inventoryItems[ScenarioKey].reserved_quantity = 5
            /\ inventoryItems'[ScenarioKey].reserved_quantity = 5
            /\ inventoryItems'[ScenarioKey].quantity = 10
    ]_vars

\* the release of 7 was recorded after the reservation of 5
C2_Witness ==
    /\ movementRows = 2
    /\ movement.transaction_type = "release"
    /\ movement.quantity = 7
    /\ inventoryItems[ScenarioKey].quantity = 10
    /\ inventoryItems[ScenarioKey].reserved_quantity = 5

(***************************************************************************)
(* Finance ledger: properties                                              *)
(***************************************************************************)
RECURSIVE LedgerSum(_, _, _)
\* the amounts of the stored transactions whose account on the given side is a
LedgerSum(a, side, rows) ==
    IF rows = {} THEN 0
    ELSE LET i == CHOOSE x \in rows : TRUE
         IN  (IF transactions[i][side] = a THEN transactions[i].amount ELSE 0)
                + LedgerSum(a, side, rows \ {i})

\* sum of incoming minus sum of outgoing amounts of account a
LedgerBalance(a) ==
    LedgerSum(a, "destination_account", DOMAIN transactions)
        - LedgerSum(a, "source_account", DOMAIN transactions)

\* C7: every stored income transaction has its source account as destination,
\* every stored expense transaction has none, whatever the caller supplied; a
\* transfer or an adjustment is stored with the destination the caller supplied.
C7_DestinationByType ==
    /\ \A i \in DOMAIN transactions :
        /\ transactions[i].transaction_type = "income" =>
             transactions[i].destination_account = transactions[i].source_account
        /\ transactions[i].transaction_type = "expense" =>
             transactions[i].destination_account = NoAccount
    /\ (handler = "Transaction.save"
          /\ transaction.transaction_type \in {"transfer", "adjustment"}) =>
        transactions[transaction.pk].destination_account = transaction.destination_account

\* an expense was saved with a destination supplied, and is stored without one
C7_Witness ==
    /\ handler = "Transaction.save"
    /\ transaction.transaction_type = "expense"
    /\ transaction.destination_account = "a2"
    /\ transactions[transaction.pk].destination_account = NoAccount

\* C8: right after Transaction.save the stored balance of the saved
\* transaction's source account, and of its destination account when it has
\* one, is the sum of the account's incoming amounts minus the sum of its
\* outgoing amounts.
C8_BalancesAfterSave ==
    handler = "Transaction.save" =>
        LET t == transactions[transaction.pk]
        IN  /\ balance[t.source_account] = LedgerBalance(t.source_account)
            /\ t.destination_account # NoAccount =>
                 balance[t.destination_account] = LedgerBalance(t.destination_account)

\* a transfer of 2 from a1 to a2 was saved after an expense of 1 on a2
C8_Witness ==
    /\ handler = "Transaction.save"
    /\ Len(transactions) = 2
    /\ transaction.pk = 2
    /\ transactions[2] = [transaction_type |-> "transfer", amount |-> 2,
                          source_account |-> "a1", destination_account |-> "a2"]
    /\ transactions[1].transaction_type = "expense"
    /\ balance["a1"] = 0 - 2
    /\ balance["a2"] = 1

(***************************************************************************)
(* Debt reconciliation: properties                                         *)
(***************************************************************************)
RECURSIVE RecordedPayments(_, _)
\* the amounts of the stored payments of debt d
RecordedPayments(d, rows) ==
    IF rows = {} THEN 0
    ELSE LET i == CHOOSE x \in rows : TRUE
         IN  (IF debtPayments[i].debt = d THEN debtPayments[i].amount ELSE 0)
                + RecordedPayments(d, rows \ {i})

\* C9: right after DebtPayment.save the owning debt's paid_amount is the sum
\* of the amounts of its recorded payments, and its status is 'paid' when
\* paid_amount >= amount (the boundary included), 'partially_paid' when
\* 0 < paid_amount < amount, 'active' otherwise.
C9_DebtAfterPayment ==
    handler = "DebtPayment.save" =>
        LET d == debts[debtPayments[debtPayment.pk].debt]
        IN  /\ d.paid_amount = RecordedPayments(debtPayments[debtPayment.pk].debt,
                                                DOMAIN debtPayments)
            /\ d.paid_amount >= d.amount => d.status = "paid"
            /\ (0 < d.paid_amount /\ d.paid_amount < d.amount) => d.status = "partially_paid"
            /\ (d.paid_amount <= 0 /\ d.paid_amount < d.amount) => d.status = "active"

\* two payments of 1 were recorded for the debt of 2: paid exactly
C9_Witness ==
    /\ handler = "DebtPayment.save"
    /\ debtPayment.debt = "d1"
    /\ debtPayments = <<[debt |-> "d1", amount |-> 1], [debt |-> "d1", amount |-> 1]>>
    /\ debts["d1"].paid_amount = debts["d1"].amount
    /\ debts["d1"].status = "paid"

(***************************************************************************)
(* Order total: properties                                                 *)
(***************************************************************************)
RECURSIVE ItemsSum(_, _)
\* quantity x unit_price summed over the stored items of order o
ItemsSum(o, rows) ==
    IF rows = {} THEN 0
    ELSE LET i == CHOOSE x \in rows : TRUE
         IN  (IF orderItems[i].order = o
              THEN orderItems[i].quantity * orderItems[i].unit_price ELSE 0)
                + ItemsSum(o, rows \ {i})

\* C10: right after OrderItem.save the order's total_amount is the sum of
\* quantity x unit_price over all its items plus its shipping_cost.
C10_TotalAfterItemSave ==
    handler = "OrderItem.save" =>
        LET o == orderItems[orderItem.pk].order
        IN  orders[o].total_amount = ItemsSum(o, DOMAIN orderItems) + orders[o].shipping_cost

\* items (2, 10) and (1, 5) of an order with shipping cost 3: the total is 28
C10_Witness ==
    /\ handler = "OrderItem.save"
    /\ orderItems = <<[order |-> "o1", quantity |-> 2, unit_price |-> 10],
                      [order |-> "o1", quantity |-> 1, unit_price |-> 5]>>
    /\ orders["o1"].shipping_cost = 3
    /\ orders["o1"].total_amount = 28

(***************************************************************************)
(* Payments and order status: properties                                   *)
(***************************************************************************)
\* C11: a Payment.save with status 'completed' raises the order's paid_amount
\* by the payment's amount, and the order's status becomes 'paid' exactly when
\* the raised paid_amount reaches total_amount and the status was 'pending';
\* a Payment.save with any other status leaves paid_amount and status alone.
C11_PaymentSave ==
    [][handler' = "Payment.save" =>
        LET p == payment'
            before == orders[p.order]
            after == orders'[p.order]
        IN  IF p.status = "completed"
            THEN /\ after.paid_amount = before.paid_amount + p.amount
                 /\ after.status = IF after.paid_amount >= before.total_amount
                                      /\ before.status = "pending"
                                   THEN "paid" ELSE before.status
            ELSE /\ after.paid_amount = before.paid_amount
                 /\ after.status = before.status]_vars

\* the second completed payment brings the pending order o1 to its total
C11_Witness ==
    /\ handler = "Payment.save"
    /\ payment.status = "completed"
    /\ payment.order = "o1"
    /\ Len(payments) = 2
    /\ orders["o1"].paid_amount = OrderTotal
    /\ orders["o1"].status = "paid"
    /\ orders["o1"].paid_at # NoTime

\* C12: an Order saved with status 'paid', 'shipped' or 'delivered' has the
\* matching timestamp set, to the time of that save when it was unset; a
\* timestamp that is set is never changed by a later save, whatever statuses
\* the order goes through.
C12_TimestampsOnce ==
    [][\A o \in Orders :
        LET before == orders[o]
            after == orders'[o]
        IN  /\ after.status = "paid" => after.paid_at # NoTime
            /\ after.status = "shipped" => after.shipped_at # NoTime
            /\ after.status = "delivered" => after.delivered_at # NoTime
            /\ before.paid_at # NoTime => after.paid_at = before.paid_at
            /\ before.shipped_at # NoTime => after.shipped_at = before.shipped_at
            /\ before.delivered_at # NoTime => after.delivered_at = before.delivered_at
            /\ before.paid_at = NoTime /\ after.paid_at # NoTime
                  => after.status = "paid" /\ after.paid_at = now
            /\ before.shipped_at = NoTime /\ after.shipped_at # NoTime
                  => after.status = "shipped" /\ after.shipped_at = now
            /\ before.delivered_at = NoTime /\ after.delivered_at # NoTime
                  => after.status = "delivered" /\ after.delivered_at = now]_vars

\* o1 was paid, left the status and is paid again: paid_at is the first time
C12_Witness ==
    /\ Len(orderHistory) = 3
    /\ \A i \in 1..3 : orderHistory[i].order = "o1"
    /\ orderHistory[1].status = "paid"
    /\ orderHistory[2].status = "shipped"
    /\ orderHistory[3].status = "paid"
    /\ orders["o1"].status = "paid"
    /\ orders["o1"].paid_at = 1
    /\ orders["o1"].shipped_at = 2
    /\ now = 4

(***************************************************************************)
(* Tracking numbers: properties                                            *)
(***************************************************************************)
\* the step is a call of update_status
IsTrackingCall(h) ==
    h \in {"TrackingNumber.update_status", "TrackingNumberAdmin.mark_as_delivered"}

\* C13: update_status called with a status that is not one of the nine known
\* values returns False and leaves current_status, shipped_date,
\* delivered_date and the TrackingHistory rows as they were.
C13_UnknownStatus ==
    [][IsTrackingCall(handler') /\ tracking'.status \notin TrackingNumber_STATUS_CHOICES
        => /\ tracking'.returned = FALSE
           /\ trackings' = trackings
           /\ trackingHistory' = trackingHistory]_vars

\* a refused call on a tracking number that was shipped before
C13_Witness ==
    /\ handler = "TrackingNumber.update_status"
    /\ tracking = [tracking_number |-> "t1", status |-> UnlistedStatus, returned |-> FALSE]
    /\ trackings["t1"] = [current_status |-> "shipped", shipped_date |-> 1,
                          delivered_date |-> NoTime]
    /\ Len(trackingHistory) = 1
    /\ now = 3

\* C14: shipped_date is set by the first successful update_status('shipped')
\* and delivered_date by the first successful update_status('delivered'), to
\* the time of that call; no later call, with the same or any other status,
\* changes a date that is set.
C14_DatesOnce ==
    [][\A tn \in TrackingNumbers :
        LET before == trackings[tn]
            after == trackings'[tn]
            called(s) == /\ IsTrackingCall(handler')
                         /\ tracking' = [tracking_number |-> tn, status |-> s, returned |-> TRUE]
        IN  /\ before.shipped_date # NoTime => after.shipped_date = before.shipped_date
            /\ before.delivered_date # NoTime => after.delivered_date = before.delivered_date
            /\ before.shipped_date = NoTime
                  => after.shipped_date = IF called("shipped") THEN now ELSE NoTime
            /\ before.delivered_date = NoTime
                  => after.delivered_date = IF called("delivered") THEN now ELSE NoTime]_vars

\* t1 was shipped, delivered and shipped again: both dates are the first ones
C14_Witness ==
    /\ tracking = [tracking_number |-> "t1", status |-> "shipped", returned |-> TRUE]
    /\ trackings["t1"] = [current_status |-> "shipped", shipped_date |-> 1,
                          delivered_date |-> 2]
    /\ Len(trackingHistory) = 3
    /\ now = 4

\* the status of the row appended last for tracking number tn, "" if none
LastStatus(history, tn) ==
    LET rows == {i \in DOMAIN history : history[i].tracking_number = tn}
    IN  IF rows = {} THEN ""
        ELSE history[CHOOSE i \in rows : \A j \in rows : j <= i].status

\* C15: every successful update_status call appends exactly one
\* TrackingHistory row, whose previous_status is the status before the call
\* and whose status is the new one (also when they are equal), and leaves the
\* rows that exist alone; current_status is the status of the row appended
\* last for the tracking number.
C15_HistoryAppend ==
    [][/\ IsTrackingCall(handler') /\ tracking'.returned
            => trackingHistory' = Append(trackingHistory,
                  [tracking_number |-> tracking'.tracking_number,
                   status |-> tracking'.status,
                   previous_status |-> trackings[tracking'.tracking_number].current_status])
       /\ \A tn \in TrackingNumbers :
            LastStatus(trackingHistory', tn) # ""
                => trackings'[tn].current_status = LastStatus(trackingHistory', tn)]_vars

\* a row whose two statuses are equal, after a row whose statuses differ
C15_Witness ==
    /\ trackingHistory =
         <<[tracking_number |-> "t1", status |-> "in_transit", previous_status |-> "pending"],
           [tracking_number |-> "t2", status |-> "lost", previous_status |-> "pending"],
           [tracking_number |-> "t1", status |-> "in_transit", previous_status |-> "in_transit"]>>
    /\ trackings["t1"].current_status = "in_transit"
    /\ trackings["t2"].current_status = "lost"

(***************************************************************************)
(* Budgets: properties                                                     *)
(***************************************************************************)
ProgressProperties ==
    {"Budget.income_progress", "Budget.expense_progress", "BudgetCategory.progress"}

\* C16: income_progress, expense_progress and progress return 0 whenever the
\* budget amount is unset or <= 0, whatever the actual amount is, and never
\* raise.
C16_ProgressZero ==
    reading.property \in ProgressProperties =>
        /\ ~reading.value.raised
        /\ reading.amount = None \/ reading.amount[1] <= 0 => reading.value = Zero

\* a category budget of amount 0 with an actual amount of 3
C16_Witness ==
    /\ reading.property = "BudgetCategory.progress"
    /\ reading.amount = <<0>>
    /\ reading.value = Zero
    /\ actual_amount(budgetTransactions, budget, "c1") = 3

RECURSIVE DaySum(_, _)
\* the amounts of the rows of that type dated on a day from start_date to
\* end_date, summed over rows 1..n
DaySum(type, n) ==
    IF n = 0 THEN 0
    ELSE (IF /\ budgetTransactions[n].transaction_type = type
             /\ budget.start_date <= budgetTransactions[n].date.day
             /\ budgetTransactions[n].date.day <= budget.end_date
          THEN budgetTransactions[n].amount ELSE 0) + DaySum(type, n - 1)

\* C17: actual_income (actual_expense) is the sum of the amounts of the income
\* (expense) transactions dated from start_date to end_date, both days
\* included, so that a transaction at any time of the end_date day counts.
C17_ActualWithinPeriod ==
    /\ reading.property = "Budget.actual_income"
          => reading.value.num = DaySum("income", Len(budgetTransactions))
    /\ reading.property = "Budget.actual_expense"
          => reading.value.num = DaySum("expense", Len(budgetTransactions))

(***************************************************************************)
(* Order history and the payment bulk action: properties                   *)
(***************************************************************************)
\* C18: whenever the status of an order changes through the order form, the
\* order bulk actions, the payment bulk action or the saving of a payment,
\* exactly one OrderHistory row is appended, whose status is the new status
\* and whose previous_status is the old one.
C18_HistoryOnStatusChange ==
    [][\A o \in Orders :
        orders'[o].status # orders[o].status
            => orderHistory' = Append(orderHistory,
                    OrderHistoryRow(o, orders'[o].status, orders[o].status))]_vars

\* C19: whenever the bulk action makes a payment 'completed', the stored
\* paid_amount of its order rises by the amount of the payment, also when the
\* order is not fully paid by it or is not pending.
C19_BulkCompletedRaisesPaid ==
    [][handler' = "PaymentAdmin.mark_as_completed" =>
        \A pk \in DOMAIN payments :
            payments[pk].status # "completed" /\ payments'[pk].status = "completed"
                => orders'[payments[pk].order].paid_amount
                       = orders[payments[pk].order].paid_amount + payments[pk].amount]_vars

(***************************************************************************)
(* Finance ledger: the balances of all accounts                            *)
(***************************************************************************)
\* C20: in every state reached by creating, editing and deleting
\* transactions, the stored balance of every account is the sum of its
\* incoming amounts minus the sum of its outgoing amounts.
C20_BalancesAlways ==
    \A a \in Accounts : balance[a] = LedgerBalance(a)

(***************************************************************************)
(* Inventory ledger: the stock of every item                               *)
(***************************************************************************)
\* C21: after any sequence of movements from an empty inventory, every
\* InventoryItem has reserved_quantity <= quantity.
C21_ReservedWithinQuantity ==
    \A key \in DOMAIN inventoryItems :
        inventoryItems[key].reserved_quantity <= inventoryItems[key].quantity

\* C22: a transfer saved without a destination warehouse is persisted and
\* changes neither the quantity nor the reserved_quantity of any item, in the
\* source warehouse or anywhere else.
C22_TransferWithoutDestination ==
    [][(movement'.transaction_type = "transfer"
          /\ movement'.destination_warehouse = NoWarehouse) =>
        /\ movementRows' = movementRows + 1
        /\ \A p \in Products, w \in Warehouses \cup {NoWarehouse} :
             /\ QtyOf(inventoryItems', <<p, w>>) = QtyOf(inventoryItems, <<p, w>>)
             /\ RsvOf(inventoryItems', <<p, w>>) = RsvOf(inventoryItems, <<p, w>>)]_vars

\* a transfer of 2 without destination from a warehouse that holds 2
C22_Witness ==
    /\ handler = "InventoryTransaction.save"
    /\ movement.transaction_type = "transfer"
    /\ movement.destination_warehouse = NoWarehouse
    /\ movement.source_warehouse = "w1"
    /\ movement.quantity = 2
    /\ movementRows = 2
    /\ inventoryItems[<<"p1", "w1">>].quantity = 2

\* C26: after any sequence of movements, every InventoryItem has
\* quantity >= 0 and reserved_quantity >= 0.
C26_StockNotNegative ==
    \A key \in DOMAIN inventoryItems :
        inventoryItems[key].quantity >= 0 /\ inventoryItems[key].reserved_quantity >= 0

\* an issue of 2 was refused by an item that holds 1
C26_Witness ==
    /\ movementRows = 2
    /\ movement.transaction_type = "issue"
    /\ movement.quantity = 2
    /\ inventoryItems[SourceKey(movement)].quantity = 1
    /\ inventoryItems[SourceKey(movement)].reserved_quantity = 0

\* C27: a save of a movement that is stored already applies the rule of its
\* type once more: a receipt or return of N adds N again, an adjustment sets
\* N again, an issue, reservation or release of N is applied again when its
\* guard holds; no row is added.
C27_ResaveAppliesAgain ==
    [][resaves' # resaves =>
        LET m == movement
            q == QtyOf(inventoryItems, SourceKey(m))
            r == RsvOf(inventoryItems, SourceKey(m))
            t == m.transaction_type
            after == inventoryItems'[SourceKey(m)]
        IN  /\ movementRows' = movementRows
            /\ movement' = movement
            /\ after.quantity =
                  CASE t \in {"receipt", "return"} -> q + m.quantity
                    [] t = "issue" -> IF q >= m.quantity THEN q - m.quantity ELSE q
                    [] t = "adjustment" -> m.quantity
                    [] OTHER -> q
            /\ after.reserved_quantity =
                  CASE t = "reservation" -> IF q - r >= m.quantity THEN r + m.quantity ELSE r
                    [] t = "release" -> IF r >= m.quantity THEN r - m.quantity ELSE r
                    [] OTHER -> r]_vars

\* one receipt of 2, saved twice: the item holds 4
C27_Witness ==
    /\ movementRows = 1
    /\ resaves = 1
    /\ movement.transaction_type = "receipt"
    /\ movement.quantity = 2
    /\ inventoryItems[<<"p1", "w1">>].quantity = 4

(***************************************************************************)
(* Concurrent saves: properties                                            *)
(***************************************************************************)
\* both Payment.save calls have written the order
SaversDone == \A s \in Savers : savers[s].pc = "done"

\* the paid_amount that saver s read
ReadPaid(s) == savers[s].order.paid_amount

\* C23: when two completed payments of one order are saved and both savers
\* read paid_amount before either wrote, the stored paid_amount is that of
\* one payment only; when one saver read after the other wrote, as in every
\* sequential execution, it is the sum of both.
C23_LostPayment ==
    SaversDone =>
        IF \A s \in Savers : ReadPaid(s) = 0
        THEN \E s \in Savers : orders["o1"].paid_amount = savers[s].amount
        ELSE orders["o1"].paid_amount = savers["s1"].amount + savers["s2"].amount

\* payments of 1 and 2 on an order of total 3: both read 0, the stored
\* paid_amount is 1 and the order still awaits its payment
C23_Witness ==
    /\ SaversDone
    /\ Len(payments) = 2
    /\ savers["s1"].amount = 1
    /\ savers["s2"].amount = 2
    /\ ReadPaid("s1") = 0
    /\ ReadPaid("s2") = 0
    /\ orders["o1"].total_amount = OrderTotal
    /\ orders["o1"].paid_amount = 1
    /\ orders["o1"].status = "pending"

(***************************************************************************)
(* Two concurrent movements on the item of the reserve scenario            *)
(* (apps/inventory/models.py)                                              *)
(***************************************************************************)
RaceQuantities == {3, 7}
RaceTypes == {"receipt", "issue", "reservation", "release"}

\* InventoryTransaction.save of mover m, first statement: the row is inserted
MoverInsert(m) ==
    /\ movers[m].pc = "idle"
    /\ movementRows' = movementRows + 1
    /\ movement' = movers[m].movement
    /\ movers' = [movers EXCEPT ![m].pc = "inserted"]
    /\ handler' = "InventoryTransaction.save"
    /\ UNCHANGED <<inventoryItems, savers>>
    /\ UNCHANGED <<finVars, debtVars, orderVars, payVars, trackVars, budgetVars>>
    /\ UNCHANGED <<resaves, auditVars>>

\* _update_inventory: get_or_create reads the item of the source warehouse
MoverRead(m) ==
    /\ movers[m].pc = "inserted"
    /\ movers' = [movers EXCEPT ![m].pc = "read",
                                ![m].item = inventoryItems[SourceKey(movers[m].movement)]]
    /\ handler' = "InventoryTransaction.save"
    /\ UNCHANGED <<invVars, savers>>
    /\ UNCHANGED <<finVars, debtVars, orderVars, payVars, trackVars, budgetVars>>
    /\ UNCHANGED <<resaves, auditVars>>

\* the item that the rule of movement mv makes of the item that was read
applied(item, mv) == _update_inventory(SourceKey(mv) :> item, mv)[SourceKey(mv)]

\* source_item.save() is reached: always by a receipt, by the other types
\* when their guard holds
item_saved(item, mv) ==
    CASE mv.transaction_type = "receipt" -> TRUE
      [] mv.transaction_type = "issue" -> item.quantity >= mv.quantity
      [] mv.transaction_type = "reservation" -> available_quantity(item) >= mv.quantity
      [] mv.transaction_type = "release" -> item.reserved_quantity >= mv.quantity
      [] OTHER -> FALSE

MoverWrite_fresh(m) ==
    /\ movers[m].pc = "read"
    /\ LET mv == movers[m].movement
       IN  inventoryItems' = [inventoryItems EXCEPT ![SourceKey(mv)] = applied(@, mv)]
    /\ movers' = [movers EXCEPT ![m].pc = "done"]
    /\ handler' = "InventoryTransaction.save"
    /\ UNCHANGED <<movementRows, movement, savers>>
    /\ UNCHANGED <<finVars, debtVars, orderVars, payVars, trackVars, budgetVars>>
    /\ UNCHANGED <<resaves, auditVars>>

\* the guard is tested on the item that was read, and source_item.save()
\* writes every field of that item
MoverWrite(m) ==
    /\ movers[m].pc = "read"
    /\ LET mv == movers[m].movement
           item == movers[m].item
       IN  inventoryItems' = IF item_saved(item, mv)
                             THEN [inventoryItems EXCEPT ![SourceKey(mv)] = applied(item, mv)]
                             ELSE inventoryItems
    /\ movers' = [movers EXCEPT ![m].pc = "done"]
    /\ handler' = "InventoryTransaction.save"
    /\ UNCHANGED <<movementRows, movement, savers>>
    /\ UNCHANGED <<finVars, debtVars, orderVars, payVars, trackVars, budgetVars>>
    /\ UNCHANGED <<resaves, auditVars>>

\* two movements of any of the types and quantities are about to be saved
\* for the item of the scenario
InitInventoryRace ==
    /\ inventoryItems = ScenarioItems
    /\ movementRows = 0
    /\ movement = NoMovement
    /\ handler = "none"
    /\ InitFinance
    /\ InitDebt
    /\ InitOrders
    /\ InitPayments
    /\ InitTracking
    /\ InitBudget
    /\ resaves = 0
    /\ InitAudit
    /\ savers = [s \in Savers |-> IdleSaver]
    /\ movers \in [Movers ->
          {[IdleMover EXCEPT !.movement = MovementRow(t, "p1", "w1", NoWarehouse, n, 1)] :
             t \in RaceTypes, n \in RaceQuantities}]

NextInventoryRace ==
    \/ \E m \in Movers : MoverInsert(m)
    \/ \E m \in Movers : MoverRead(m)
    \/ \E m \in Movers : MoverWrite(m)

SpecInventoryRace == InitInventoryRace /\ [][NextInventoryRace]_vars

MoversDone == \A m \in Movers : movers[m].pc = "done"

\* C24: when two movements on one item are saved and both movers read the
\* item before either wrote, the stored item is what one of the two movements
\* alone makes of the item read; when one mover read after the other wrote,
\* as in every sequential execution, both movements are applied in turn.
C24_LostMovement ==
    MoversDone =>
        LET start == ScenarioItems[ScenarioKey]
            stored == inventoryItems[ScenarioKey]
        IN  IF \A m \in Movers : movers[m].item = start
            THEN \E m \in Movers : stored = applied(start, movers[m].movement)
            ELSE \E m, n \in Movers :
                    /\ m # n
                    /\ stored = applied(applied(start, movers[m].movement), movers[n].movement)

\* two issues of 7 from a quantity of 10: both passed the guard, 3 is stored
C24_Witness ==
    /\ MoversDone
    /\ movementRows = 2
    /\ \A m \in Movers :
         /\ movers[m].movement.transaction_type = "issue"
         /\ movers[m].movement.quantity = 7
         /\ movers[m].item.quantity = 10
    /\ inventoryItems[ScenarioKey].quantity = 3

(***************************************************************************)
(* Stock audits: properties                                                *)
(***************************************************************************)
\* C25: the start action turns a draft audit to in_progress with start_date
\* set, the complete action turns an in_progress audit to completed with
\* end_date set, both leave an audit of any other status as it is; the
\* cancel action sets cancelled on every audit that is not completed.
C25_AuditActions ==
    [][\A i \in Audits :
        LET before == audits[i]
            after == audits'[i]
            ran(name) == auditCall' = [action |-> name, audit |-> i, raised |-> FALSE]
                         \/ auditCall' = [action |-> name, audit |-> i, raised |-> TRUE]
        IN  /\ ran("start_inventory") =>
                 IF before.status = "draft"
                 THEN after.status = "in_progress" /\ after.start_date # NoTime
                 ELSE after = before
            /\ ran("complete_inventory") =>
                 IF before.status = "in_progress"
                 THEN after.status = "completed" /\ after.end_date # NoTime
                 ELSE after = before
            /\ ran("cancel_inventory") =>
                 IF before.status # "completed"
                 THEN after = [before EXCEPT !.status = "cancelled"]
                 ELSE after = before]_vars

(***************************************************************************)
(* Repeated saves and refunds of payments: properties                      *)
(***************************************************************************)
RECURSIVE CompletedPayments(_, _)
\* the sum of the amounts of the first n payment rows of order o that are
\* completed
CompletedPayments(o, n) ==
    IF n = 0 THEN 0
    ELSE CompletedPayments(o, n - 1)
         + (IF payments[n].order = o /\ payments[n].status = "completed"
            THEN payments[n].amount ELSE 0)

\* C28: a save of a payment row that is already completed, saved again as
\* completed, adds the amount to the order's paid_amount once more, and marking
\* a payment refunded leaves every order, paid_amount included, as it is.
C28_ResaveAddsAgain ==
    [][/\ (/\ handler' = "Payment.save"
           /\ payment'.pk \in DOMAIN payments
           /\ payments[payment'.pk].status = "completed"
           /\ payment'.status = "completed")
          => orders'[payment'.order].paid_amount
               = orders[payment'.order].paid_amount + payment'.amount
       /\ handler' = "PaymentAdmin.mark_as_refunded"
          => /\ orders' = orders
             /\ \E pk \in DOMAIN payments : payments'[pk].status = "refunded"]_vars

\* the only completed payment of order o1 was saved twice: paid_amount is
\* above the sum of the completed payments
C28_Witness ==
    /\ handler = "Payment.save"
    /\ payment.status = "completed"
    /\ payment.order = "o1"
    /\ Len(payments) = 1
    /\ orders["o1"].paid_amount > CompletedPayments("o1", Len(payments))

(***************************************************************************)
(* Income transactions: properties                                         *)
(***************************************************************************)
\* C29: right after the save of an income transaction on account X, the
\* stored balance of X is the incoming minus the outgoing amounts of the
\* other stored transactions: the income row, stored with X on both sides,
\* adds nothing.
C29_IncomeAddsNothing ==
    (handler = "Transaction.save" /\ transaction.transaction_type = "income") =>
        LET X == transaction.source_account
            others == DOMAIN transactions \ {transaction.pk}
        IN  /\ transactions[transaction.pk].source_account = X
            /\ transactions[transaction.pk].destination_account = X
            /\ transactions[transaction.pk].amount = transaction.amount
            /\ balance[X] = LedgerSum(X, "destination_account", others)
                              - LedgerSum(X, "source_account", others)

\* an income was saved on an account that another stored transaction had
\* already moved: the balance is the one the other transaction left
C29_Witness ==
    /\ handler = "Transaction.save"
    /\ transaction.transaction_type = "income"
    /\ transaction.amount > 0
    /\ Len(transactions) = 2
    /\ transaction.pk = 2
    /\ transactions[1].transaction_type = "transfer"
    /\ transactions[1].source_account = transaction.source_account
    /\ balance[transaction.source_account] = 0 - transactions[1].amount
    /\ balance[transaction.source_account] # 0

(***************************************************************************)
(* Payments on closed debts: properties                                    *)
(***************************************************************************)
RECURSIVE PaymentsOf(_, _, _)
\* the amounts of the first n rows of a DebtPayment table that belong to debt d
PaymentsOf(table, d, n) ==
    IF n = 0 THEN 0
    ELSE PaymentsOf(table, d, n - 1) + (IF table[n].debt = d THEN table[n].amount ELSE 0)

\* C30: a DebtPayment.save leaves the debt with a status among 'active',
\* 'partially_paid' and 'paid', whatever the status was before; also for a
\* debt that was 'cancelled', or 'paid' through the mark-as-paid action,
\* paid_amount becomes the sum of the recorded payments and the status is the
\* one that sum gives.
C30_SaveOverwritesClosedDebt ==
    [][handler' = "DebtPayment.save" =>
        LET d == debtPayment'.debt
            total == PaymentsOf(debtPayments', d, Len(debtPayments'))
            derived == IF total >= debts[d].amount THEN "paid"
                       ELSE IF total > 0 THEN "partially_paid" ELSE "active"
        IN  /\ debts'[d].status \in {"active", "partially_paid", "paid"}
            /\ debts[d].status \in {"cancelled", "paid"} =>
                 /\ debts'[d].paid_amount = total
                 /\ debts'[d].status = derived]_vars

\* the only payment ever recorded is 1 on the debt d2 of 3, which until then
\* was cancelled, or paid with paid_amount 3: it is partially paid with 1
C30_Witness ==
    /\ handler = "DebtPayment.save"
    /\ debtPayments = <<[debt |-> "d2", amount |-> 1]>>
    /\ debtPayment.pk = 1
    /\ debts["d2"].paid_amount = 1
    /\ debts["d2"].status = "partially_paid"

====
